---- MODULE Spec2Model ----
(***************************************************************************)
(* Model of service-app: the EngineInfo RPC client (utils.py) and the      *)
(* Flask routes that forward to it (app.py).                               *)
(*                                                                         *)
(* Python values are modelled as follows.                                  *)
(*   dict  : a TLA+ record/function whose domain is the dict's key set     *)
(*   None  : the record [pynone |-> TRUE]                                  *)
(*   a value that may be a dict or a str (what do_http_post_request        *)
(*           returns): [type, text, d] with type "dict" or "str"           *)
(* Message texts are ASCII stand-ins for the Chinese literals of the       *)
(* source (see MsgRequestFailed and the like).                             *)
(***************************************************************************)
EXTENDS Integers, Sequences, FiniteSets, TLC

VARIABLES CONFIG, engine, files, posts, sent, ret, web, exp

vars == <<CONFIG, engine, files, posts, sent, ret, web, exp>>

\* CONFIG, engine : the globals of app.py
\* files  : the output files of the export, each a sequence of lines
\* posts  : the POSTs issued while serving the current (or last) request
\* sent   : the last call of http_post_request: the envelope built, what the
\*          transport did and what the call returned
\* ret    : the client operation called by the current (or last) request, its
\*          arguments and what it returned
\* web    : the answer of the route
\* exp    : the frame of get_local_data_to_csv (pc, self, its arguments and
\*          locals), with the answer to its first request (first), the
\*          answers of the loop that were appended (pages) and the lines
\*          this call appended (written)

(***************************************************************************)
(* Bounds of the model                                                     *)
(***************************************************************************)
\* the remote reports totals of up to MaxPages pages
MaxPages == 3
\* an export may start only while the output files hold at most MaxFileLen
\* lines together
MaxFileLen == 2

(***************************************************************************)
(* Program constants                                                       *)
(***************************************************************************)
limit == 1000
max_size == 5 * 1024 * 1024
fixed_suffix == ".0001100000000000000000000000000000000.lx0000000000000.trustbe.net"
SuccessCodes == {"E0000000000", "200"}

\* utils.py:591 (U+8BF7 U+6C42 U+5931 U+8D25, "request failed")
MsgRequestFailed == "request failed"
\* utils.py:439 prefix (U+6570 U+636E U+5904 U+7406 U+5931 U+8D25, "data processing failed")
MsgDataFailed == "data processing failed: "
\* utils.py:435
MsgExportOk == "data export succeeded"
\* utils.py:498
MsgTooLarge == "file size exceeds the limit, max 5MB"

(***************************************************************************)
(* Python values                                                           *)
(***************************************************************************)
None == [pynone |-> TRUE]
EmptyDict == [k \in {} |-> ""]
PyDict(d) == [type |-> "dict", text |-> "", d |-> d]
PyStr(s) == [type |-> "str", text |-> s, d |-> EmptyDict]

\* Python truth value of a dict or a str: `not resp` is ~Truthy(resp)
Truthy(v) == IF v.type = "str" THEN v.text # "" ELSE DOMAIN v.d # {}

\* the outcome of evaluating a Python expression: a value or a raised exception
Return(v) == [raised |-> FALSE, exc |-> "", value |-> v]
Raise(e) == [raised |-> TRUE, exc |-> e, value |-> PyDict(EmptyDict)]

\* the classes an exception is an instance of
ExcBases(e) ==
    CASE e \in {"ConnectionError", "Timeout"} -> {e, "RequestException", "OSError", "Exception"}
      [] e = "JSONDecodeError" -> {e, "ValueError", "Exception"}
      [] e = "binascii.Error" -> {e, "ValueError", "Exception"}
      [] e = "FileNotFoundError" -> {e, "OSError", "Exception"}
      [] OTHER -> {e, "Exception"}

\* try: r  except handlers...: onCaught
TryExcept(r, handlers, onCaught) ==
    IF r.raised /\ ExcBases(r.exc) \cap handlers # {} THEN onCaught ELSE r

(***************************************************************************)
(* The remote platform and the transport (requests.post)                   *)
(***************************************************************************)
\* what one requests.post call can do: raise, or deliver a response with a
\* content-type header and a body (a JSON value when it parses, else text)
TransportRaise(e) ==
    [kind |-> "raise", exc |-> e, ctype |-> "", parses |-> FALSE,
     json |-> EmptyDict, text |-> ""]
JsonResponse(ct, d) ==
    [kind |-> "response", exc |-> "", ctype |-> ct, parses |-> TRUE,
     json |-> d, text |-> ""]
BadJsonResponse(t) ==
    [kind |-> "response", exc |-> "", ctype |-> "application/json", parses |-> FALSE,
     json |-> EmptyDict, text |-> t]
TextResponse(ct, t) ==
    [kind |-> "response", exc |-> "", ctype |-> ct, parses |-> FALSE,
     json |-> EmptyDict, text |-> t]

\* str.startswith
startswith(s, prefix) ==
    Len(s) >= Len(prefix) /\ SubSeq(s, 1, Len(prefix)) = prefix

\* utils.py:101-125
do_http_post_request_no_generic_handler(body, url, headers, outcome) ==
    LET tried ==
          IF outcome.kind = "raise" THEN Raise(outcome.exc)
          ELSE IF startswith(outcome.ctype, "application/json")
               THEN IF outcome.parses THEN Return(PyDict(outcome.json))
                    ELSE Raise("JSONDecodeError")
               ELSE Return(PyStr(outcome.text))
    IN  TryExcept(tried, {"RequestException", "JSONDecodeError"},
                  Return(PyDict(EmptyDict)))

do_http_post_request(body, url, headers, outcome) ==
    LET tried ==
          IF outcome.kind = "raise" THEN Raise(outcome.exc)
          ELSE IF startswith(outcome.ctype, "application/json")
               THEN IF outcome.parses THEN Return(PyDict(outcome.json))
                    ELSE Raise("JSONDecodeError")
               ELSE Return(PyStr(outcome.text))
    IN  TryExcept(tried, {"RequestException", "JSONDecodeError", "Exception"},
                  Return(PyDict(EmptyDict)))

\* utils.py:42-58; self is the client instance [token, url]
http_post_request(self, body, outcome) ==
    do_http_post_request(body, self.url, [Authorization |-> self.token], outcome)

\* PostOf reading the URL and the token of the global engine of the moment
PostOf_global_engine(self, body) ==
    [url |-> engine.url, Authorization |-> engine.token, body |-> body]

\* the POST that http_post_request puts on the wire
PostOf(self, body) ==
    [url |-> self.url, Authorization |-> self.token, body |-> body]

\* the record of one call: build_request_param(method, kwargs) gave body,
\* the transport did outcome, http_post_request returned r
NoSend == [made |-> FALSE]
SendOf(method, kwargs, body, outcome, r) ==
    [made |-> TRUE, method |-> method, kwargs |-> kwargs, body |-> body,
     outcome |-> outcome, r |-> r]

\* utils.py:127-150
build_request_param_no_suffix(method, kwargs) ==
    [method |-> method, content |-> [param |-> kwargs]]

build_request_param(method, kwargs) ==
    [method |-> method \o fixed_suffix, content |-> [param |-> kwargs]]

\* utils.py:581-592
failed_request_resp == [code |-> "E0000000500", message |-> MsgRequestFailed]

(***************************************************************************)
(* What the remote may answer                                              *)
(***************************************************************************)
\* envelopes the platform answers single-call operations with
\* (utils.py:159-174, 74-89)
UserEnvelopes ==
    { [code |-> "E0000000000", message |-> "ok",
       content |-> [userId |-> 1755166221, userName |-> "admin007"]],
      [code |-> "200", message |-> "done", success |-> TRUE],
      [code |-> "E0000000001", message |-> "user not logged in", content |-> None],
      [code |-> "E0000000500", message |-> "user not logged in", success |-> FALSE] }

TransportFailures ==
    { TransportRaise("ConnectionError"), TransportRaise("Timeout"),
      TransportRaise("ValueError"), BadJsonResponse("") }

NonJsonResponses ==
    { TextResponse("text/html", ""), TextResponse("", "Bad Gateway") }

RpcOutcomes ==
    TransportFailures \cup NonJsonResponses
      \cup { JsonResponse("application/json", e) : e \in UserEnvelopes }
      \cup { JsonResponse("application/json; charset=utf-8",
                          [code |-> "E0000000000", message |-> "ok", content |-> None]),
             JsonResponse("application/json", EmptyDict),
             JsonResponse("application/json", [error |-> "no route"]) }

(***************************************************************************)
(* Single-call client operations (EngineInfo)                              *)
(***************************************************************************)
\* the body shared by every single-call operation (utils.py:176-181):
\*   param = build_request_param(...); resp = http_post_request(param)
\*   if not resp: return failed_request_resp();  return resp
\* Result: the POSTs issued and the value returned (or exception raised).
CallOnce_always_sentinel(self, method, kwargs, outcome) ==
    LET param == build_request_param(method, kwargs)
        resp == http_post_request(self, param, outcome)
    IN  [posts |-> <<PostOf(self, param)>>,
         sent |-> SendOf(method, kwargs, param, outcome, resp),
         r |-> IF resp.raised THEN resp
               ELSE IF ~Truthy(resp.value) \/ resp.value.type # "dict"
                         \/ "code" \notin DOMAIN resp.value.d
                         \/ resp.value.d.code \notin SuccessCodes
                    THEN Return(PyDict(failed_request_resp))
                    ELSE resp]

\* CallOnce sending the request a second time when the transport failed
CallOnce_retry(self, method, kwargs, outcome) ==
    LET param == build_request_param(method, kwargs)
        resp == http_post_request(self, param, outcome)
    IN  [posts |-> IF outcome \in TransportFailures
                   THEN <<PostOf(self, param), PostOf(self, param)>>
                   ELSE <<PostOf(self, param)>>,
         sent |-> SendOf(method, kwargs, param, outcome, resp),
         r |-> IF resp.raised THEN resp
               ELSE IF ~Truthy(resp.value) THEN Return(PyDict(failed_request_resp))
               ELSE resp]

CallOnce(self, method, kwargs, outcome) ==
    LET param == build_request_param(method, kwargs)
        resp == http_post_request(self, param, outcome)
    IN  [posts |-> <<PostOf(self, param)>>,
         sent |-> SendOf(method, kwargs, param, outcome, resp),
         r |-> IF resp.raised THEN resp
               ELSE IF ~Truthy(resp.value) THEN Return(PyDict(failed_request_resp))
               ELSE resp]

\* utils.py:152-181
EngineInfo_get_user_info(self, outcome) ==
    CallOnce(self, "info.user.paas", EmptyDict, outcome)

\* utils.py:183-209
EngineInfo_get_local_data_list(self, namespace_id, outcome) ==
    CallOnce(self, "list.data.local.engine.paas", [namespaceId |-> namespace_id], outcome)

\* utils.py:211-264
EngineInfo_get_partner_data_list(self, page_num, page_size, engine_tag, username, outcome) ==
    CallOnce(self, "list.resource.receive.auth.paas",
             [pageNum |-> page_num, pageSize |-> page_size,
              engineTAG |-> engine_tag, username |-> username], outcome)

\* utils.py:266-282
EngineInfo_get_partner_data_columns(self, metano, outcome) ==
    CallOnce(self, "detail.partner.metaset.paas", [metano |-> metano], outcome)

\* utils.py:284-328
EngineInfo_report_task_info(self, task_id, status, exec_time, total_time, namespace_id, outcome) ==
    CallOnce(self, "save.task.engine.paas",
             [taskId |-> task_id, status |-> status, execTime |-> exec_time,
              totalTime |-> total_time, namespaceId |-> namespace_id], outcome)

\* utils.py:330-376
EngineInfo_report_audit_info(self, namespace_id, username, action, description, module, outcome) ==
    CallOnce(self, "record.operate.audit.paas",
             [spaceName |-> namespace_id, userName |-> username, action |-> action,
              description |-> description, module |-> module], outcome)

\* utils.py:441-470
EngineInfo_report_network_info(self, namespace_id, network_ip, access_ip, outcome) ==
    CallOnce(self, "report.network.engine.paas",
             [namespace |-> namespace_id, networkIp |-> network_ip,
              accessIp |-> access_ip], outcome)

\* utils.py:531-579
EngineInfo_report_api_server(self, namespace_id, order_type, request_param, result_address, order_id, outcome) ==
    CallOnce(self, "report.order.engine.paas",
             [namespace |-> namespace_id, orderType |-> order_type,
              requestParam |-> request_param, resultAddress |-> result_address,
              orderId |-> order_id], outcome)

(***************************************************************************)
(* File upload (EngineInfo.report_file_to_center_oss)                      *)
(***************************************************************************)
\* a local file: whether it exists, its size in bytes and its bytes (named)
LocalFile(exists, size, data) == [exists |-> exists, size |-> size, data |-> data]

\* base64.b64encode(data).decode(): 4 characters per started group of 3 bytes,
\* the last group padded with "="
b64encode(bytes) ==
    [chars |-> 4 * ((bytes.size + 2) \div 3),
     pad |-> (3 - (bytes.size % 3)) % 3,
     of |-> bytes.data]

\* the number of bytes a base64 text decodes to
b64decoded_len(b64) == 3 * (b64.chars \div 4) - b64.pad

\* utils.py:489-529
report_file_to_center_oss_ge_limit(self, file, file_name, outcome) ==
    IF ~file.exists
    THEN [posts |-> <<>>, sent |-> NoSend,
          r |-> Return(PyDict([code |-> "E0000000404", message |-> "file does not exist"]))]
    ELSE IF file.size >= max_size
    THEN [posts |-> <<>>, sent |-> NoSend,
          r |-> Return(PyDict([code |-> "E0000000400", message |-> MsgTooLarge]))]
    ELSE LET data == [size |-> file.size, data |-> file.data]
             b64_str == b64encode(data)
         IN  CallOnce(self, "upload.file.engine.paas",
                      [fileName |-> file_name, content |-> b64_str], outcome)

EngineInfo_report_file_to_center_oss(self, file, file_name, outcome) ==
    IF ~file.exists
    THEN [posts |-> <<>>, sent |-> NoSend,
          r |-> Return(PyDict([code |-> "E0000000404", message |-> "file does not exist"]))]
    ELSE IF file.size > max_size
    THEN [posts |-> <<>>, sent |-> NoSend,
          r |-> Return(PyDict([code |-> "E0000000400", message |-> MsgTooLarge]))]
    ELSE LET data == [size |-> file.size, data |-> file.data]
             b64_str == b64encode(data)
         IN  CallOnce(self, "upload.file.engine.paas",
                      [fileName |-> file_name, content |-> b64_str], outcome)

(***************************************************************************)
(* The web layer (app.py): helpers                                         *)
(***************************************************************************)
\* dict.get(key, default)
Get(d, k, default) == IF k \in DOMAIN d THEN d[k] ELSE default

\* int(s) for the strings the routes are given
IntOf(s) ==
    CASE s = "0" -> Return(0)
      [] s = "1" -> Return(1)
      [] s = "2" -> Return(2)
      [] s = "10" -> Return(10)
      [] OTHER -> Raise("ValueError")

\* no client operation was called while serving the request
NoCall ==
    [op |-> "none", args |-> EmptyDict, raised |-> FALSE, exc |-> "",
     value |-> PyDict(EmptyDict)]
RetOf(op, args, r) ==
    [op |-> op, args |-> args, raised |-> r.raised, exc |-> r.exc, value |-> r.value]

\* return jsonify({'success': True, 'data': result})
JsonSuccess(route, result) ==
    [route |-> route, status |-> 200, success |-> TRUE, data |-> result]
\* return jsonify({'success': False, 'message': ...}), status
JsonFailure(route, status, message) ==
    [route |-> route, status |-> status, success |-> FALSE, message |-> message]

\* the frame of get_local_data_to_csv when no export is running or has run
ExpIdle ==
    [pc |-> "idle", self |-> [token |-> "", url |-> ""],
     args |-> [metano |-> "", output_filename |-> ""], csv_filename |-> "", total |-> 0, columns |-> <<>>, offset |-> 0,
     first |-> PyDict(EmptyDict), pages |-> <<>>, written |-> <<>>]

\* the tail shared by the forwarding routes (app.py:95-105 and the like):
\*   try: result = engine.op(...); return jsonify(success=True, data=result)
\*   except Exception as e: return jsonify(success=False, message=...), 500
Forward(route, op, args, c) ==
    /\ posts' = c.posts
    /\ sent' = c.sent
    /\ ret' = RetOf(op, args, c.r)
    /\ web' = IF c.r.raised THEN JsonFailure(route, 500, c.r.exc)
              ELSE JsonSuccess(route, c.r.value)
    /\ exp' = ExpIdle
    /\ UNCHANGED <<CONFIG, engine, files>>

\* no answer has been sent yet
Pending(route) == [route |-> route, status |-> 0, success |-> FALSE, message |-> ""]

\* the route answers without calling the client
Answer(w) ==
    /\ posts' = <<>>
    /\ sent' = NoSend
    /\ ret' = NoCall
    /\ web' = w
    /\ exp' = ExpIdle
    /\ UNCHANGED <<CONFIG, engine, files>>

\* no export is in progress (requests are served one at a time, except that
\* update_config may run between two page requests of an export)
Idle == exp.pc # "loop"

(***************************************************************************)
(* The web layer: routes                                                   *)
(***************************************************************************)
\* the JSON bodies update_config is sent (None: no JSON body)
ConfigUpdates ==
    { None, EmptyDict,
      [token |-> "t1", url |-> "http://u1"],
      [token |-> "your_api_token_here",
       url |-> "http://10.99.92.39:8865/janus/invoke/v1",
       namespace_id |-> "", username |-> "admin007"],
      [token |-> "", url |-> "", namespace_id |-> "your_namespace_id_here"] }

\* app.py:58-86 (the JSON answer of this route is not kept in web)
update_config ==
    \E data \in ConfigUpdates :
      IF data = None
      THEN UNCHANGED vars
      ELSE LET c1 == IF Get(data, "token", "") # ""
                     THEN [CONFIG EXCEPT !.token = data.token] ELSE CONFIG
               c2 == IF Get(data, "url", "") # ""
                     THEN [c1 EXCEPT !.url = data.url] ELSE c1
               c3 == IF Get(data, "namespace_id", "") # ""
                     THEN [c2 EXCEPT !.namespace_id = data.namespace_id] ELSE c2
               c4 == IF Get(data, "username", "") # ""
                     THEN [c3 EXCEPT !.username = data.username] ELSE c3
           IN  /\ CONFIG' = c4
               /\ engine' = [token |-> c4.token, url |-> c4.url]
               /\ UNCHANGED <<files, posts, sent, ret, web, exp>>

\* app.py:92-105
get_user_info ==
    /\ Idle
    /\ \E o \in RpcOutcomes :
         Forward("get_user_info", "get_user_info", EmptyDict,
                 EngineInfo_get_user_info(engine, o))

\* app.py:111-125
get_local_data_list ==
    /\ Idle
    /\ \E args \in {EmptyDict, [namespace_id |-> "ns1"]}, o \in RpcOutcomes :
         LET namespace_id == Get(args, "namespace_id", CONFIG.namespace_id)
         IN  Forward("get_local_data_list", "get_local_data_list",
                     [namespace_id |-> namespace_id],
                     EngineInfo_get_local_data_list(engine, namespace_id, o))

\* app.py:127-145
get_partner_data_list ==
    /\ Idle
    /\ \E args \in {EmptyDict, [page_num |-> "2"], [page_num |-> "abc"],
                    [page_size |-> "10", username |-> "bob"]},
          o \in RpcOutcomes :
         LET page_num == IF "page_num" \in DOMAIN args THEN IntOf(args.page_num)
                         ELSE Return(1)
             page_size == IF "page_size" \in DOMAIN args THEN IntOf(args.page_size)
                          ELSE Return(10)
             engine_tag == Get(args, "engine_tag", "lanxiang-fl:1.0.0")
             username == Get(args, "username", CONFIG.username)
         IN  IF page_num.raised \/ page_size.raised
             THEN Answer(JsonFailure("get_partner_data_list", 500, "ValueError"))
             ELSE Forward("get_partner_data_list", "get_partner_data_list",
                          [page_num |-> page_num.value, page_size |-> page_size.value,
                           engine_tag |-> engine_tag, username |-> username],
                          EngineInfo_get_partner_data_list(engine, page_num.value,
                              page_size.value, engine_tag, username, o))

\* app.py:147-167
get_partner_data_columns ==
    /\ Idle
    /\ \E args \in {EmptyDict, [metano |-> ""], [metano |-> "m1"]}, o \in RpcOutcomes :
         IF Get(args, "metano", "") = ""
         THEN Answer(JsonFailure("get_partner_data_columns", 400, "missing metano"))
         ELSE Forward("get_partner_data_columns", "get_partner_data_columns",
                      [metano |-> args.metano],
                      EngineInfo_get_partner_data_columns(engine, args.metano, o))

\* app.py:198-224
report_task_info ==
    /\ Idle
    /\ \E data \in {None, EmptyDict, [task_id |-> "t1"],
                    [task_id |-> "t1", status |-> "success"],
                    [task_id |-> "t1", status |-> "success", total_time |-> "abc"],
                    [task_id |-> "t1", status |-> "failed", total_time |-> "10",
                     namespace_id |-> "ns1"]},
          o \in RpcOutcomes :
         IF data = None
         THEN Answer(JsonFailure("report_task_info", 500, "AttributeError"))
         ELSE LET task_id == Get(data, "task_id", "")
                  status == Get(data, "status", "")
                  exec_time == Get(data, "exec_time", "now")
                  total_time == IF "total_time" \in DOMAIN data
                                THEN IntOf(data.total_time) ELSE Return(0)
                  namespace_id == Get(data, "namespace_id", CONFIG.namespace_id)
              IN  IF total_time.raised
                  THEN Answer(JsonFailure("report_task_info", 500, "ValueError"))
                  ELSE IF task_id = "" \/ status = ""
                  THEN Answer(JsonFailure("report_task_info", 400, "missing task_id, status"))
                  ELSE Forward("report_task_info", "report_task_info",
                               [task_id |-> task_id, status |-> status,
                                exec_time |-> exec_time, total_time |-> total_time.value,
                                namespace_id |-> namespace_id],
                               EngineInfo_report_task_info(engine, task_id, status,
                                   exec_time, total_time.value, namespace_id, o))

\* app.py:230-256
report_audit_info ==
    /\ Idle
    /\ \E data \in {None, EmptyDict, [action |-> "query"],
                    [action |-> "query", description |-> "d"],
                    [action |-> "query", description |-> "d", username |-> "bob",
                     module |-> "m"]},
          o \in RpcOutcomes :
         IF data = None
         THEN Answer(JsonFailure("report_audit_info", 500, "AttributeError"))
         ELSE LET namespace_id == Get(data, "namespace_id", CONFIG.namespace_id)
                  username == Get(data, "username", CONFIG.username)
                  action == Get(data, "action", "")
                  description == Get(data, "description", "")
                  module == Get(data, "module", "lanxiang-fl-engine")
              IN  IF action = "" \/ description = ""
                  THEN Answer(JsonFailure("report_audit_info", 400,
                                          "missing action, description"))
                  ELSE Forward("report_audit_info", "report_audit_info",
                               [namespace_id |-> namespace_id, username |-> username,
                                action |-> action, description |-> description,
                                module |-> module],
                               EngineInfo_report_audit_info(engine, namespace_id,
                                   username, action, description, module, o))

\* app.py:262-286
report_network_info ==
    /\ Idle
    /\ \E data \in {None, EmptyDict, [network_ip |-> "127.0.0.1:1001"],
                    [network_ip |-> "127.0.0.1:1001", access_ip |-> "127.0.0.1:9977"]},
          o \in RpcOutcomes :
         IF data = None
         THEN Answer(JsonFailure("report_network_info", 500, "AttributeError"))
         ELSE LET namespace_id == Get(data, "namespace_id", CONFIG.namespace_id)
                  network_ip == Get(data, "network_ip", "")
                  access_ip == Get(data, "access_ip", "")
              IN  IF network_ip = "" \/ access_ip = ""
                  THEN Answer(JsonFailure("report_network_info", 400,
                                          "missing network_ip, access_ip"))
                  ELSE Forward("report_network_info", "report_network_info",
                               [namespace_id |-> namespace_id, network_ip |-> network_ip,
                                access_ip |-> access_ip],
                               EngineInfo_report_network_info(engine, namespace_id,
                                   network_ip, access_ip, o))

\* app.py:336-362
report_api_server ==
    /\ Idle
    /\ \E data \in {None, EmptyDict, [order_type |-> "api"],
                    [order_type |-> "file", result_address |-> "64ada"],
                    [order_type |-> "api", result_address |-> "10.0.0.1:7702/order/demo",
                     request_param |-> "{}", order_id |-> "o1"]},
          o \in RpcOutcomes :
         IF data = None
         THEN Answer(JsonFailure("report_api_server", 500, "AttributeError"))
         ELSE LET namespace_id == Get(data, "namespace_id", CONFIG.namespace_id)
                  order_type == Get(data, "order_type", "")
                  request_param == Get(data, "request_param", "")
                  result_address == Get(data, "result_address", "")
                  order_id == Get(data, "order_id", "")
              IN  IF order_type = "" \/ result_address = ""
                  THEN Answer(JsonFailure("report_api_server", 400,
                                          "missing order_type, result_address"))
                  ELSE Forward("report_api_server", "report_api_server",
                               [namespace_id |-> namespace_id, order_type |-> order_type,
                                request_param |-> request_param,
                                result_address |-> result_address, order_id |-> order_id],
                               EngineInfo_report_api_server(engine, namespace_id,
                                   order_type, request_param, result_address, order_id, o))

\* sizes of the files a client may upload
FileSizes ==
    {0, 1, 2, 3, 4 * 1024 * 1024, max_size, max_size + 1, 6 * 1024 * 1024}

\* app.py:292-330; the upload is saved to a temporary file, which therefore
\* exists when report_file_to_center_oss reads it
upload_file_to_oss ==
    /\ Idle
    /\ \E upload \in {EmptyDict, [filename |-> ""]}
                       \cup {[filename |-> "a.bin", size |-> n] : n \in FileSizes}
                       \cup {[filename |-> "a.bin", size |-> 3, file_name |-> "b.bin"]},
          o \in RpcOutcomes :
         IF Get(upload, "filename", "") = ""
         THEN Answer(JsonFailure("upload_file_to_oss", 400, "no file selected"))
         ELSE LET file_name == Get(upload, "file_name", upload.filename)
                  temp == LocalFile(TRUE, upload.size, upload.filename)
              IN  Forward("upload_file_to_oss", "report_file_to_center_oss",
                          [file |-> temp, file_name |-> file_name],
                          EngineInfo_report_file_to_center_oss(engine, temp, file_name, o))

\* result.get('code') on what get_user_info returned: a str has no get
CodeOf(result) ==
    IF result.type = "str" THEN Raise("AttributeError")
    ELSE Return(Get(result.d, "code", "None"))

\* app.py:368-389
test_connection ==
    /\ Idle
    /\ \E o \in RpcOutcomes :
         LET c == EngineInfo_get_user_info(engine, o)
             result == c.r.value
             code == IF Truthy(result) THEN CodeOf(result) ELSE Return("None")
         IN  /\ posts' = c.posts
             /\ sent' = c.sent
             /\ ret' = RetOf("get_user_info", EmptyDict, c.r)
             /\ web' = IF c.r.raised \/ code.raised
                       THEN JsonFailure("test_connection", 500, "exception")
                       ELSE IF Truthy(result) /\ code.value \in {"E0000000000", "200"}
                            THEN [route |-> "test_connection", status |-> 200,
                                  success |-> TRUE, message |-> "connection ok",
                                  data |-> result]
                            ELSE [route |-> "test_connection", status |-> 200,
                                  success |-> FALSE, message |-> "connection abnormal",
                                  data |-> result]
             /\ exp' = ExpIdle
    /\ UNCHANGED <<CONFIG, engine, files>>

\* app.py:391-417
get_system_status ==
    /\ Idle
    /\ \E o \in RpcOutcomes :
         LET c == EngineInfo_get_user_info(engine, o)
             code == CodeOf(c.r.value)
         IN  /\ posts' = c.posts
             /\ sent' = c.sent
             /\ ret' = RetOf("get_user_info", EmptyDict, c.r)
             /\ web' = IF c.r.raised \/ code.raised
                       THEN JsonFailure("get_system_status", 500, "exception")
                       ELSE [route |-> "get_system_status", status |-> 200,
                             success |-> TRUE,
                             data |-> [api_connection |->
                                          IF code.value \in {"E0000000000", "200"}
                                          THEN "online" ELSE "offline",
                                       user_logged_in |-> code.value = "E0000000000",
                                       config |-> [url |-> CONFIG.url,
                                                   namespace_id |-> CONFIG.namespace_id,
                                                   username |-> CONFIG.username]]]
             /\ exp' = ExpIdle
    /\ UNCHANGED <<CONFIG, engine, files>>

(***************************************************************************)
(* Paged export (EngineInfo.get_local_data_to_csv): values                 *)
(***************************************************************************)
\* resp["content"]
ContentOf(resp) ==
    IF resp.type = "str" THEN Raise("TypeError")
    ELSE IF "content" \notin DOMAIN resp.d THEN Raise("KeyError")
    ELSE Return(resp.d.content)

\* c[k] for c a dict or None
Item(c, k) ==
    IF c = None THEN Raise("TypeError")
    ELSE IF k \notin DOMAIN c THEN Raise("KeyError")
    ELSE Return(c[k])

\* resp["content"][k]
ContentItem(resp, k) ==
    LET c == ContentOf(resp) IN IF c.raised THEN c ELSE Item(c.value, k)

\* [col["name"] for col in cols]
ColumnNames(cols) ==
    IF \E i \in 1..Len(cols) : "name" \notin DOMAIN cols[i] THEN Raise("KeyError")
    ELSE Return([i \in 1..Len(cols) |-> cols[i].name])

\* base64.b64decode(text): the text must come in whole groups of 4 characters
b64decode(text) ==
    IF text.chars % 4 # 0 THEN Raise("binascii.Error")
    ELSE Return([size |-> b64decoded_len(text), data |-> text.of])

\* json.loads(bytes): the bytes are a JSON text that parses to a value, or not
json_loads(bytes) ==
    IF ~bytes.data.parses THEN Raise("JSONDecodeError")
    ELSE Return(bytes.data.value)

\* pd.DataFrame(rows): the columns are the keys of the row records
DataFrame(json_data) ==
    [columns |-> UNION {DOMAIN json_data[i] : i \in 1..Len(json_data)},
     rows |-> json_data]

HeaderLine(columns) == [header |-> columns]
RowLine(row) == [row |-> row]

\* df.to_csv(csv_filename, mode="a", index=False, header=header), as the new
\* content of the file; header is [write, columns]. A list of header names
\* that does not match the frame's columns in number raises ValueError
\* before anything is written.
to_csv(df, content, header) ==
    IF header.write /\ Len(header.columns) # Cardinality(df.columns)
    THEN Raise("ValueError")
    ELSE Return(content
                  \o (IF header.write THEN <<HeaderLine(header.columns)>> ELSE <<>>)
                  \o [i \in 1..Len(df.rows) |-> RowLine(df.rows[i])])

(***************************************************************************)
(* Paged export: what the remote may answer                                *)
(***************************************************************************)
Totals ==
    {0, 1, limit, limit + 1, MaxPages * limit - 500, MaxPages * limit}

ColumnLists ==
    { <<[name |-> "a"]>>, <<[name |-> "a"], [name |-> "b"]>> }

\* the row lists a page may carry
RowLists ==
    { <<>>, <<[a |-> "1"]>>, <<[a |-> "1"], [a |-> "2", b |-> "3"]>> }

JsonText(rows) == [parses |-> TRUE, value |-> rows]
BadJsonText == [parses |-> FALSE, value |-> <<>>]
\* a base64 text that is not made of whole groups of 4 characters
BadBase64 == [chars |-> 7, pad |-> 0, of |-> BadJsonText]

\* content.content of a page: base64 of a JSON text
PagePayloads ==
    { BadBase64, b64encode([size |-> 6, data |-> BadJsonText]) }
      \cup { b64encode([size |-> 6, data |-> JsonText(rows)]) : rows \in RowLists }

OneRow == b64encode([size |-> 6, data |-> JsonText(<<[a |-> "1"]>>)])

\* content of the answer to the first request of an export
FirstContents ==
    { [total |-> t, columns |-> cols, content |-> OneRow] :
        t \in Totals, cols \in ColumnLists }
      \cup { None,
             [total |-> 1, columns |-> <<[label |-> "a"]>>, content |-> OneRow],
             [columns |-> <<[name |-> "a"]>>, content |-> OneRow],
             [total |-> 1, content |-> OneRow],
             [total |-> 1, columns |-> <<[name |-> "a"]>>],
             [total |-> 1, columns |-> <<[name |-> "a"]>>, content |-> BadBase64],
             [total |-> limit + 1, columns |-> <<[name |-> "a"]>>,
              content |-> b64encode([size |-> 6, data |-> BadJsonText])] }

\* content of the answer to a request of the loop; the totals and columns a
\* later page carries may differ from those of the first
LoopContents ==
    { [total |-> 1, columns |-> <<[name |-> "a"]>>, content |-> p] :
        p \in PagePayloads }
      \cup { None, [total |-> 1, columns |-> <<[name |-> "a"]>>],
             [total |-> MaxPages * limit + 1,
              columns |-> <<[name |-> "b"], [name |-> "c"]>>, content |-> OneRow] }

FailureEnvelopes ==
    { [code |-> "E0000000001", message |-> "user not logged in", content |-> None],
      [code |-> "E0000000500", message |-> "user not logged in", success |-> FALSE],
      [code |-> "E0000000404", message |-> "no such data",
       content |-> [total |-> 1, columns |-> <<[name |-> "a"]>>, content |-> OneRow]] }

PageOutcomes(contents) ==
    TransportFailures \cup NonJsonResponses
      \cup { JsonResponse("application/json", e) :
               e \in FailureEnvelopes \cup
                     { [code |-> "E0000000000", message |-> "ok", content |-> c] :
                         c \in contents } }

FirstOutcomes == PageOutcomes(FirstContents)
LoopOutcomes == PageOutcomes(LoopContents)

(***************************************************************************)
(* Paged export: the routine, one step per remote call                     *)
(***************************************************************************)
OutputFiles == {"m1.csv", "out.csv"}

\* the number of lines the output files hold together
TotalLines(fs) == Len(fs["m1.csv"]) + Len(fs["out.csv"])

\* the request of one page (utils.py:398-399, 415-416)
PageRequest_next_offset(metano, offset) ==
    build_request_param("range.delivery.paas",
                        [metano |-> metano, limit |-> limit, offset |-> offset + 1])

PageRequest(metano, offset) ==
    build_request_param("range.delivery.paas",
                        [metano |-> metano, limit |-> limit, offset |-> offset])

\* utils.py:437-439
DataFailure(exc) ==
    Return(PyDict([code |-> "E0000000500", message |-> MsgDataFailed \o exc]))

\* utils.py:405, 437-439: what the try block raises is caught and reported
ExportExcept_only_KeyError(r) ==
    TryExcept(r, {"KeyError"}, DataFailure(r.exc))

ExportExcept(r) ==
    TryExcept(r, {"KeyError", "JSONDecodeError", "Exception"}, DataFailure(r.exc))

\* utils.py:414: the loop condition
LoopCondition_le(offset, total) == offset * limit <= total

LoopCondition_ends_one_early(offset, total) == (offset + 1) * limit < total

LoopCondition(offset, total) == offset * limit < total

\* return from get_local_data_to_csv into export_local_data_to_csv
\* (app.py:183-192)
ExportReturn(r) ==
    /\ ret' = RetOf("get_local_data_to_csv", exp'.args, r)
    /\ web' = IF r.raised THEN JsonFailure("export_local_data_to_csv", 500, r.exc)
              ELSE JsonSuccess("export_local_data_to_csv", r.value)

\* utils.py:405-408: total and columns of the first response
PageDescriptor(resp) ==
    LET total == ContentItem(resp, "total")
        cols == ContentItem(resp, "columns")
        names == IF cols.raised THEN cols ELSE ColumnNames(cols.value)
    IN  IF total.raised THEN total
        ELSE IF names.raised THEN names
        ELSE Return([total |-> total.value, columns |-> names.value])

\* app.py:169-183 and utils.py:394-412: the route is entered, the first
\* request is sent and the page descriptor is read
ExportBegin ==
    /\ Idle
    /\ \E data \in {None, EmptyDict, [metano |-> "m1"],
                    [metano |-> "m1", output_filename |-> "out.csv"]},
          o \in FirstOutcomes :
         IF data = None
         THEN /\ posts' = <<>>
              /\ sent' = NoSend
              /\ ret' = NoCall
              /\ web' = JsonFailure("export_local_data_to_csv", 500, "AttributeError")
              /\ exp' = ExpIdle
              /\ UNCHANGED <<CONFIG, engine, files>>
         ELSE IF Get(data, "metano", "") = ""
         THEN /\ posts' = <<>>
              /\ sent' = NoSend
              /\ ret' = NoCall
              /\ web' = JsonFailure("export_local_data_to_csv", 400, "missing metano")
              /\ exp' = ExpIdle
              /\ UNCHANGED <<CONFIG, engine, files>>
         ELSE LET metano == data.metano
                  output_filename == Get(data, "output_filename", "")
                  self == engine
                  param == PageRequest(metano, 0)
                  resp == http_post_request(self, param, o)
                  desc == PageDescriptor(resp.value)
                  csv_filename == IF output_filename # "" THEN output_filename
                                  ELSE metano \o ".csv"
                  started == [pc |-> "done", self |-> self,
                              args |-> [metano |-> metano,
                                        output_filename |-> output_filename],
                              csv_filename |-> "", total |-> 0, columns |-> <<>>,
                              offset |-> 0, first |-> resp.value, pages |-> <<>>,
                              written |-> <<>>]
              IN  /\ TotalLines(files) <= MaxFileLen
                  /\ posts' = <<PostOf(self, param)>>
                  /\ sent' = SendOf("range.delivery.paas",
                                    [metano |-> metano, limit |-> limit, offset |-> 0],
                                    param, o, resp)
                  /\ UNCHANGED <<CONFIG, engine, files>>
                  /\ IF resp.raised
                     THEN exp' = started /\ ExportReturn(resp)
                     ELSE IF ~Truthy(resp.value)
                     THEN exp' = started /\ ExportReturn(Return(PyDict(failed_request_resp)))
                     ELSE IF desc.raised
                     THEN /\ exp' = started
                          /\ ExportReturn(ExportExcept(desc))
                     ELSE /\ exp' = [started EXCEPT !.pc = "loop",
                                       !.csv_filename = csv_filename,
                                       !.total = desc.value.total,
                                       !.columns = desc.value.columns]
                          /\ ret' = NoCall
                          /\ web' = Pending("export_local_data_to_csv")

\* PageAppend writing the header with every page
PageAppend_header_every_page(resp, content, columns, offset) ==
    LET encoded_content == ContentItem(resp, "content")
        decoded_data == IF encoded_content.raised THEN encoded_content
                        ELSE b64decode(encoded_content.value)
        json_data == IF decoded_data.raised THEN decoded_data
                     ELSE json_loads(decoded_data.value)
    IN  IF json_data.raised THEN json_data
        ELSE to_csv(DataFrame(json_data.value), content,
                    [write |-> TRUE, columns |-> columns])

\* PageAppend taking the header from the columns of the page it appends
PageAppend_header_from_page(resp, content, columns, offset) ==
    LET encoded_content == ContentItem(resp, "content")
        decoded_data == IF encoded_content.raised THEN encoded_content
                        ELSE b64decode(encoded_content.value)
        json_data == IF decoded_data.raised THEN decoded_data
                     ELSE json_loads(decoded_data.value)
        desc == PageDescriptor(resp)
    IN  IF json_data.raised THEN json_data
        ELSE IF desc.raised THEN desc
        ELSE to_csv(DataFrame(json_data.value), content,
                    [write |-> (offset = 0), columns |-> desc.value.columns])

\* utils.py:417-429: one page is requested, decoded and appended; the result
\* is the new content of the output file, or the exception raised
PageAppend(resp, content, columns, offset) ==
    LET encoded_content == ContentItem(resp, "content")
        decoded_data == IF encoded_content.raised THEN encoded_content
                        ELSE b64decode(encoded_content.value)
        json_data == IF decoded_data.raised THEN decoded_data
                     ELSE json_loads(decoded_data.value)
    IN  IF json_data.raised THEN json_data
        ELSE to_csv(DataFrame(json_data.value), content,
                    [write |-> (offset = 0), columns |-> columns])

\* ExportPage taking back, when a page fails, the lines the call had appended
ExportPage_rollback ==
    /\ exp.pc = "loop"
    /\ LoopCondition(exp.offset, exp.total)
    /\ \E o \in LoopOutcomes :
         LET param == PageRequest(exp.args.metano, exp.offset)
             resp == http_post_request(exp.self, param, o)
             old == files[exp.csv_filename]
             out == IF resp.raised THEN resp
                    ELSE PageAppend(resp.value, old, exp.columns, exp.offset)
         IN  /\ posts' = Append(posts, PostOf(exp.self, param))
             /\ sent' = SendOf("range.delivery.paas",
                               [metano |-> exp.args.metano, limit |-> limit,
                                offset |-> exp.offset],
                               param, o, resp)
             /\ UNCHANGED <<CONFIG, engine>>
             /\ IF out.raised
                THEN /\ exp' = [exp EXCEPT !.pc = "done"]
                     /\ files' = [files EXCEPT ![exp.csv_filename] =
                                    SubSeq(old, 1, Len(old) - Len(exp.written))]
                     /\ ExportReturn(ExportExcept(out))
                ELSE /\ exp' = [exp EXCEPT !.offset = exp.offset + 1,
                                  !.pages = Append(exp.pages, resp.value),
                                  !.written = exp.written
                                     \o SubSeq(out.value, Len(old) + 1, Len(out.value))]
                     /\ files' = [files EXCEPT ![exp.csv_filename] = out.value]
                     /\ UNCHANGED <<ret, web>>

\* utils.py:414-432, 437-439: one iteration of the loop
ExportPage ==
    /\ exp.pc = "loop"
    /\ LoopCondition(exp.offset, exp.total)
    /\ \E o \in LoopOutcomes :
         LET param == PageRequest(exp.args.metano, exp.offset)
             resp == http_post_request(exp.self, param, o)
             old == files[exp.csv_filename]
             out == IF resp.raised THEN resp
                    ELSE PageAppend(resp.value, old, exp.columns, exp.offset)
         IN  /\ posts' = Append(posts, PostOf(exp.self, param))
             /\ sent' = SendOf("range.delivery.paas",
                               [metano |-> exp.args.metano, limit |-> limit,
                                offset |-> exp.offset],
                               param, o, resp)
             /\ UNCHANGED <<CONFIG, engine>>
             /\ IF out.raised
                THEN /\ exp' = [exp EXCEPT !.pc = "done"]
                     /\ files' = files
                     /\ ExportReturn(ExportExcept(out))
                ELSE /\ exp' = [exp EXCEPT !.offset = exp.offset + 1,
                                  !.pages = Append(exp.pages, resp.value),
                                  !.written = exp.written
                                     \o SubSeq(out.value, Len(old) + 1, Len(out.value))]
                     /\ files' = [files EXCEPT ![exp.csv_filename] = out.value]
                     /\ UNCHANGED <<ret, web>>

\* utils.py:414, 434-435: the loop condition fails and the routine returns
ExportEnd ==
    /\ exp.pc = "loop"
    /\ ~LoopCondition(exp.offset, exp.total)
    /\ exp' = [exp EXCEPT !.pc = "done"]
    /\ ExportReturn(Return(PyDict([code |-> "E0000000000", message |-> MsgExportOk,
                                   filename |-> exp.csv_filename])))
    /\ UNCHANGED <<CONFIG, engine, files, posts, sent>>

(***************************************************************************)
(* The system                                                              *)
(***************************************************************************)
\* app.py:23-31
Init ==
    /\ CONFIG = [token |-> "your_api_token_here",
                 url |-> "http://10.99.92.39:8865/janus/invoke/v1",
                 namespace_id |-> "your_namespace_id_here",
                 username |-> "admin007"]
    /\ engine = [token |-> "your_api_token_here",
                 url |-> "http://10.99.92.39:8865/janus/invoke/v1"]
    /\ files = [f \in OutputFiles |-> <<>>]
    /\ posts = <<>>
    /\ sent = NoSend
    /\ ret = NoCall
    /\ web = Pending("none")
    /\ exp = ExpIdle

\* the routes that make one remote call
NextRpc ==
    \/ update_config
    \/ get_user_info
    \/ get_local_data_list
    \/ get_partner_data_list
    \/ get_partner_data_columns
    \/ report_task_info
    \/ report_audit_info
    \/ report_network_info
    \/ report_api_server
    \/ upload_file_to_oss
    \/ test_connection
    \/ get_system_status

\* the export route
NextExport ==
    \/ update_config
    \/ ExportBegin
    \/ ExportPage
    \/ ExportEnd

Next == NextRpc \/ NextExport

Spec == Init /\ [][Next]_vars

\* the single-call routes alone, and the export alone: the two parts share
\* only engine and CONFIG, which update_config (part of both) changes
SpecRpc == Init /\ [][NextRpc]_vars
SpecExport == Init /\ [][NextExport]_vars

\* exports into output files that are still empty, when every remote call
\* returns: an iteration of the loop that can be taken is taken, and the
\* routine returns once the loop condition fails
NextOneExport ==
    \/ TotalLines(files) = 0 /\ ExportBegin
    \/ ExportPage
    \/ ExportEnd

SpecExportFair ==
    Init /\ [][NextOneExport]_vars /\ WF_vars(ExportPage) /\ WF_vars(ExportEnd)

\* the export together with every single-call route; the single-call routes
\* neither read nor write the output files, and are taken from the states in
\* which no export has written yet
NextCalls ==
    \/ update_config
    \/ ExportBegin
    \/ ExportPage
    \/ ExportEnd
    \/ TotalLines(files) = 0 /\ get_user_info
    \/ TotalLines(files) = 0 /\ get_local_data_list
    \/ TotalLines(files) = 0 /\ get_partner_data_list
    \/ TotalLines(files) = 0 /\ get_partner_data_columns
    \/ TotalLines(files) = 0 /\ report_task_info
    \/ TotalLines(files) = 0 /\ report_audit_info
    \/ TotalLines(files) = 0 /\ report_network_info
    \/ TotalLines(files) = 0 /\ report_api_server
    \/ TotalLines(files) = 0 /\ upload_file_to_oss
    \/ TotalLines(files) = 0 /\ test_connection
    \/ TotalLines(files) = 0 /\ get_system_status

SpecCalls == Init /\ [][NextCalls]_vars

(***************************************************************************)
(* Vocabulary of the properties                                            *)
(***************************************************************************)
\* v is a mapping that carries a code and a message
IsEnvelope(v) == v.type = "dict" /\ {"code", "message"} \subseteq DOMAIN v.d

\* v is a mapping whose code is a success code
IsSuccess(v) == v.type = "dict" /\ "code" \in DOMAIN v.d /\ v.d.code \in SuccessCodes

\* v is a well-formed envelope that reports a failure
IsRemoteFailure(v) == IsEnvelope(v) /\ v.d.code \notin SuccessCodes

\* a failure result: a mapping with a code that is not a success code
IsFailureResult(v) == v.type = "dict" /\ "code" \in DOMAIN v.d /\ v.d.code \notin SuccessCodes

\* the export routine was called and has returned (or raised)
ExportReturned == ret.op = "get_local_data_to_csv" /\ exp.pc = "done"

\* the offset a POST asks for
OffsetOf(post) == post.body.content.param.offset

\* ceil(total / limit)
PagesOf(total) == (total + limit - 1) \div limit

\* content.content of v is missing or does not decode to JSON
Undecodable(v) ==
    \/ v.type # "dict"
    \/ "content" \notin DOMAIN v.d
    \/ v.d.content = None
    \/ "content" \notin DOMAIN v.d.content
    \/ v.d.content.content.chars % 4 # 0
    \/ ~v.d.content.content.of.parses

\* v carries no page descriptor (total and named columns)
NoDescriptor(v) ==
    \/ v.type # "dict"
    \/ "content" \notin DOMAIN v.d
    \/ v.d.content = None
    \/ ~({"total", "columns"} \subseteq DOMAIN v.d.content)
    \/ \E i \in 1..Len(v.d.content.columns) : "name" \notin DOMAIN v.d.content.columns[i]

(***************************************************************************)
(* C1. Claimed: one successful export against a remote that reports        *)
(* total = T > 0 issues exactly ceil(T/1000) page requests, at offsets     *)
(* 0 .. ceil(T/1000)-1, each once.                                         *)
(***************************************************************************)
C1_Original ==
    (ExportReturned /\ IsSuccess(ret.value) /\ exp.total > 0)
      => /\ Len(posts) = PagesOf(exp.total)
         /\ \A i \in 1..Len(posts) : OffsetOf(posts[i]) = i - 1

\* C1 as amended: a successful export with total = T > 0 issues exactly
\* ceil(T/1000) + 1 requests of range.delivery.paas with limit 1000: the
\* first, at offset 0, reads total and columns; the loop then requests the
\* offsets 0 .. ceil(T/1000)-1 in order, so offset 0 is requested twice.
C1_Amended ==
    /\ (exp.pc = "loop" => Len(posts) = exp.offset + 1)
    /\ (ExportReturned /\ IsSuccess(ret.value) /\ exp.total > 0)
         => /\ Len(posts) = PagesOf(exp.total) + 1
            /\ OffsetOf(posts[1]) = 0
            /\ \A i \in 2..Len(posts) : OffsetOf(posts[i]) = i - 2
            /\ \A i \in 1..Len(posts) :
                 /\ posts[i].body.method = "range.delivery.paas" \o fixed_suffix
                 /\ posts[i].body.content.param.limit = 1000
                 /\ posts[i].body.content.param.metano = exp.args.metano

\* total = 2500: four requests, offsets 0, 0, 1, 2
C1_Witness ==
    /\ ExportReturned /\ IsSuccess(ret.value)
    /\ exp.total = 2500
    /\ [i \in 1..Len(posts) |-> OffsetOf(posts[i])] = <<0, 0, 1, 2>>

(***************************************************************************)
(* C2. Claimed: when the answer to the first request of an export is a     *)
(* well-formed envelope whose code is not a success code, the export       *)
(* returns that envelope unchanged, sends no further request and writes    *)
(* nothing.                                                                *)
(***************************************************************************)
C2_Claim ==
    (ExportReturned /\ IsRemoteFailure(exp.first))
      => /\ ~ret.raised
         /\ ret.value = exp.first
         /\ Len(posts) = 1
         /\ exp.written = <<>>

SingleCallOps ==
    { "get_user_info", "get_local_data_list", "get_partner_data_list",
      "get_partner_data_columns", "report_task_info", "report_audit_info",
      "report_network_info", "report_file_to_center_oss", "report_api_server" }

\* the transport delivered a JSON body that parsed to the mapping sent.outcome.json
GotJson ==
    /\ sent.made
    /\ sent.outcome.kind = "response"
    /\ startswith(sent.outcome.ctype, "application/json")
    /\ sent.outcome.parses

(***************************************************************************)
(* C4. Claimed: when the transport fails (connection error, timeout,       *)
(* unparseable JSON body, any other exception), http_post_request returns  *)
(* the sentinel {code: "E0000000500", message: "request failed"} and no    *)
(* exception escapes.                                                      *)
(***************************************************************************)
C4_Original ==
    (sent.made /\ sent.outcome \in TransportFailures)
      => /\ ~sent.r.raised
         /\ sent.r.value = PyDict([code |-> "E0000000500", message |-> "request failed"])

\* C4 as amended: when the transport fails, http_post_request returns the
\* empty mapping {} and no exception escapes; the single-call operation that
\* made the call then returns the sentinel failure envelope to its caller.
C4_Amended ==
    (sent.made /\ sent.outcome \in TransportFailures)
      => /\ ~sent.r.raised
         /\ sent.r.value.type = "dict"
         /\ DOMAIN sent.r.value.d = {}
         /\ ret.op \in SingleCallOps
              => /\ ~ret.raised
                 /\ ret.value =
                      PyDict([code |-> "E0000000500", message |-> "request failed"])

C4_Witness ==
    /\ sent.made
    /\ sent.outcome = TransportRaise("ConnectionError")
    /\ sent.r = Return(PyDict(EmptyDict))
    /\ ret.op = "get_local_data_list"
    /\ ret.value = PyDict([code |-> "E0000000500", message |-> "request failed"])

(***************************************************************************)
(* C5. Claimed: whatever the remote or the transport does (JSON envelope,  *)
(* non-JSON body, empty body, transport exception), every client           *)
(* operation returns a mapping that carries a code and a message, and      *)
(* raises nothing.                                                         *)
(***************************************************************************)
C5_Claim ==
    (/\ ret.op # "none"
     /\ sent.made
     /\ \/ sent.outcome \in TransportFailures
        \/ sent.outcome.kind = "response" /\ ~startswith(sent.outcome.ctype, "application/json")
        \/ GotJson /\ IsEnvelope(PyDict(sent.outcome.json)))
      => /\ ~ret.raised
         /\ IsEnvelope(ret.value)

(***************************************************************************)
(* C6. When the first answer of an export reports total = 0 (with its      *)
(* columns), the loop body never runs: only the first request is sent,     *)
(* nothing is decoded or appended, nothing is raised, and the export       *)
(* returns the success result.                                             *)
(***************************************************************************)
C6_ZeroTotal ==
    (exp.pc # "idle" /\ ~NoDescriptor(exp.first) /\ exp.first.d.content.total = 0)
      => /\ Len(posts) = 1
         /\ exp.offset = 0
         /\ exp.written = <<>>
         /\ exp.pc = "loop" => ~ENABLED ExportPage /\ ENABLED ExportEnd
         /\ exp.pc = "done"
              => /\ ~ret.raised
                 /\ ret.value = PyDict([code |-> "E0000000000", message |-> MsgExportOk,
                                        filename |-> exp.csv_filename])

C6_Witness ==
    /\ ExportReturned
    /\ ~NoDescriptor(exp.first)
    /\ exp.first.d.content.total = 0
    /\ IsSuccess(ret.value)
    /\ Len(posts) = 1
    /\ exp.written = <<>>

(***************************************************************************)
(* C7. An upload of a file larger than 5 MB is rejected with the           *)
(* size-limit envelope and no POST at all; an upload of a file within the  *)
(* limit sends exactly one POST whose content parameter is the base64 of   *)
(* the whole file: it decodes to as many bytes as the file has.            *)
(***************************************************************************)
C7_Upload ==
    ret.op = "report_file_to_center_oss"
      => IF ret.args.file.size > 5 * 1024 * 1024
         THEN /\ posts = <<>>
              /\ ~sent.made
              /\ ~ret.raised
              /\ IsEnvelope(ret.value)
              /\ ret.value.d.code = "E0000000400"
         ELSE /\ Len(posts) = 1
              /\ posts[1].body.method = "upload.file.engine.paas" \o fixed_suffix
              /\ posts[1].body.content.param.fileName = ret.args.file_name
              /\ posts[1].body.content.param.content.of = ret.args.file.data
              /\ posts[1].body.content.param.content.chars % 4 = 0
              /\ b64decoded_len(posts[1].body.content.param.content)
                   = ret.args.file.size

\* a 6 MB file is rejected without a POST
C7_Witness ==
    /\ ret.op = "report_file_to_center_oss"
    /\ ret.args.file.size = 6 * 1024 * 1024
    /\ posts = <<>>
    /\ ret.value.d.code = "E0000000400"

(***************************************************************************)
(* C8. The envelope build_request_param(method, kwargs) returns has the    *)
(* keys method and content and nothing else, content has the key param     *)
(* and nothing else, content.param is kwargs and method is the operation   *)
(* name followed by the fixed suffix; it is the body of the POST.          *)
(***************************************************************************)
C8_Envelope ==
    sent.made
      => /\ DOMAIN sent.body = {"method", "content"}
         /\ DOMAIN sent.body.content = {"param"}
         /\ sent.body.content.param = sent.kwargs
         /\ sent.body.method = sent.method
              \o ".0001100000000000000000000000000000000.lx0000000000000.trustbe.net"
         /\ posts # <<>>
         /\ posts[Len(posts)].body = sent.body

C8_Witness ==
    /\ sent.made
    /\ sent.method = "list.resource.receive.auth.paas"
    /\ sent.body.content.param =
         [pageNum |-> 2, pageSize |-> 10, engineTAG |-> "lanxiang-fl:1.0.0",
          username |-> "admin007"]

(***************************************************************************)
(* C9. A single-call operation returns a failure the remote reports (a     *)
(* well-formed envelope whose code is no success code) unchanged: what it  *)
(* returns is the envelope the remote sent.                                *)
(***************************************************************************)
C9_PassThrough ==
    (ret.op \in SingleCallOps /\ GotJson /\ IsRemoteFailure(PyDict(sent.outcome.json)))
      => /\ ~ret.raised
         /\ ret.value = PyDict(sent.outcome.json)

C9_Witness ==
    /\ ret.op = "report_api_server"
    /\ GotJson
    /\ sent.outcome.json =
         [code |-> "E0000000001", message |-> "user not logged in", content |-> None]
    /\ ret.value = PyDict(sent.outcome.json)

(***************************************************************************)
(* C10. Claimed: whenever the client operation a route forwarded to        *)
(* returns a result that is no success, the route answers with success     *)
(* false.                                                                  *)
(***************************************************************************)
C10_Claim ==
    (/\ web.route \in { "get_user_info", "get_local_data_list", "get_partner_data_list",
                        "get_partner_data_columns", "report_task_info",
                        "report_audit_info", "report_network_info",
                        "upload_file_to_oss", "report_api_server", "test_connection",
                        "export_local_data_to_csv" }
     /\ web.status # 0
     /\ ret.op # "none"
     /\ ~ret.raised
     /\ ~IsSuccess(ret.value))
      => web.success = FALSE

\* the lines a page of rows makes in the output file
RowLines(rows) == [i \in 1..Len(rows) |-> RowLine(rows[i])]

\* the rows a page response carries: content.content decoded
RowsOf(v) == json_loads(b64decode(v.d.content.content).value).value

\* the lines the rows of the pages ps make, in the order of the pages
RECURSIVE LinesOfPages(_)
LinesOfPages(ps) ==
    IF ps = <<>> THEN <<>>
    ELSE LinesOfPages(SubSeq(ps, 1, Len(ps) - 1)) \o RowLines(RowsOf(ps[Len(ps)]))

\* the last n lines of a file
LastLines(content, n) == SubSeq(content, Len(content) - n + 1, Len(content))

(***************************************************************************)
(* C11. Claimed: the output file is created fresh by each export: while    *)
(* and after an export runs, its output file holds only the header and     *)
(* rows this export wrote, nothing left over from an earlier export to     *)
(* the same file.                                                          *)
(***************************************************************************)
C11_Claim ==
    (exp.pc # "idle" /\ exp.csv_filename # "")
      => files[exp.csv_filename] = exp.written

(***************************************************************************)
(* C12. After a successful export with total > 0, the lines this call      *)
(* appended to the output file are the column header once, first, written  *)
(* with the page at offset 0, and then the decoded rows of the pages at    *)
(* offsets 0, 1, 2, ... in that order, each page's rows in the order       *)
(* received; no later line is a header.                                    *)
(***************************************************************************)
C12_HeaderOnceThenRows ==
    (ExportReturned /\ IsSuccess(ret.value) /\ exp.total > 0)
      => /\ Len(exp.pages) = PagesOf(exp.total)
         /\ exp.written = <<HeaderLine(exp.columns)>> \o LinesOfPages(exp.pages)
         /\ \A i \in 2..Len(exp.written) : DOMAIN exp.written[i] = {"row"}
         /\ Len(files[exp.csv_filename]) >= Len(exp.written)
         /\ LastLines(files[exp.csv_filename], Len(exp.written)) = exp.written

\* two pages: the header, the row of page 0, the two rows of page 1
C12_Witness ==
    /\ ExportReturned /\ IsSuccess(ret.value)
    /\ exp.total = limit + 1
    /\ exp.written = << HeaderLine(<<"a">>), RowLine([a |-> "1"]),
                        RowLine([a |-> "1"]), RowLine([a |-> "2", b |-> "3"]) >>

C14_DescriptorReadOnce ==
    (exp.pc \in {"loop", "done"} /\ exp.csv_filename # "")
      => /\ exp.total = exp.first.d.content.total
         /\ exp.columns = ColumnNames(exp.first.d.content.columns).value
         /\ Len(posts) <= PagesOf(exp.first.d.content.total) + 1
         /\ exp.written # <<>>
              => exp.written[1] = HeaderLine(PageDescriptor(exp.first).value.columns)
         /\ (ExportReturned /\ IsSuccess(ret.value))
              => Len(posts) = PagesOf(exp.first.d.content.total) + 1

\* the first answer says total 1000 and column a; the page says total 3001
\* and columns b, c: one page is requested and the header is a
C14_Witness ==
    /\ ExportReturned /\ IsSuccess(ret.value)
    /\ exp.first.d.content.total = limit
    /\ Len(exp.pages) = 1
    /\ exp.pages[1].d.content.total = MaxPages * limit + 1
    /\ exp.pages[1].d.content.columns = <<[name |-> "b"], [name |-> "c"]>>
    /\ Len(posts) = 2
    /\ exp.written[1] = HeaderLine(<<"a">>)

(***************************************************************************)
(* C15. For every total >= 0, when every remote call returns, the export   *)
(* returns. The loop requests the offsets 0, 1, 2, ... one by one, only    *)
(* offsets whose first record index offset * 1000 is below total, runs at  *)
(* most ceil(total / 1000) iterations and, when no page fails, exactly     *)
(* that many, the last of them for the final partial page.                 *)
(***************************************************************************)
C15_Terminates ==
    /\ []((exp.pc \in {"loop", "done"} /\ exp.csv_filename # "")
            => /\ exp.total >= 0
               /\ exp.offset <= PagesOf(exp.total)
               /\ Len(exp.pages) = exp.offset
               /\ \A i \in 2..Len(posts) :
                    /\ OffsetOf(posts[i]) = i - 2
                    /\ OffsetOf(posts[i]) * limit < exp.total
               /\ (exp.pc = "done" /\ IsSuccess(ret.value))
                    => /\ exp.offset = PagesOf(exp.total)
                       /\ exp.total > 0
                            => /\ OffsetOf(posts[Len(posts)]) * limit < exp.total
                               /\ (OffsetOf(posts[Len(posts)]) + 1) * limit >= exp.total)
    /\ (exp.pc = "loop") ~> (exp.pc = "done")

\* total = 1001: two iterations, the second for the page of one record
C15_Witness ==
    /\ ExportReturned /\ IsSuccess(ret.value)
    /\ exp.total = limit + 1
    /\ exp.offset = 2
    /\ OffsetOf(posts[Len(posts)]) = 1

\* the upload was turned down before any request: the file is missing or too large
RejectedLocally ==
    /\ ret.op = "report_file_to_center_oss"
    /\ ~ret.args.file.exists \/ ret.args.file.size > max_size

\* the requests of the loop of an export ask for the offsets 0, 1, 2, ... once each
LoopOffsetsOnce == \A i \in 2..Len(posts) : OffsetOf(posts[i]) = i - 2

\* a request of an export failed in the transport: the export has ended with
\* a failure result and that request was its last
FailedPageEndsExport ==
    (exp.pc # "idle" /\ sent.made /\ sent.outcome \in TransportFailures)
      => /\ ExportReturned
         /\ ~ret.raised
         /\ IsFailureResult(ret.value)
         /\ posts[Len(posts)].body = sent.body
         /\ Len(posts) = IF exp.csv_filename = "" THEN 1 ELSE exp.offset + 2

(***************************************************************************)
(* C16. Claimed: every invocation of a single-call operation issues        *)
(* exactly one POST, whether it succeeds or fails, and a failed call       *)
(* gives one failure result; a failed page request of an export is not     *)
(* sent again, the export ends with a failure.                             *)
(***************************************************************************)
C16_Original ==
    /\ ret.op \in SingleCallOps
         => /\ Len(posts) = 1
            /\ ~ret.raised
            /\ sent.made /\ sent.outcome \in TransportFailures
                 => ret.value = PyDict(failed_request_resp)
    /\ exp.pc # "idle" => LoopOffsetsOnce
    /\ FailedPageEndsExport

\* C16 as amended: a single-call operation issues at most one POST: exactly
\* one, whether the call succeeds or fails, except that an upload of a
\* missing or oversized file is turned down locally with no POST at all. A
\* call that fails in the transport gives the one sentinel failure result.
\* A page request of an export that fails is not sent again: the export
\* ends with a failure result.
C16_Amended ==
    /\ ret.op \in SingleCallOps
         => /\ ~ret.raised
            /\ IF RejectedLocally
               THEN /\ posts = <<>>
                    /\ ~sent.made
                    /\ IsFailureResult(ret.value)
               ELSE /\ Len(posts) = 1
                    /\ sent.made
                    /\ posts[1].body = sent.body
                    /\ sent.outcome \in TransportFailures
                         => ret.value = PyDict(failed_request_resp)
    /\ exp.pc # "idle" => LoopOffsetsOnce
    /\ FailedPageEndsExport

\* the POST of report_task_info times out: one POST, the sentinel is returned
C16_Witness ==
    /\ ret.op = "report_task_info"
    /\ sent.made
    /\ sent.outcome = TransportRaise("Timeout")
    /\ Len(posts) = 1
    /\ ret.value = PyDict(failed_request_resp)

\* the POST p was sent with the URL and the token of the client instance self
SentBy(p, self) == p.url = self.url /\ p.Authorization = self.token

(***************************************************************************)
(* C17. update_config builds a new client and leaves the instance an       *)
(* operation runs on alone: every POST of an operation, every page         *)
(* request of an export included, carries the URL and the token of the     *)
(* instance the operation was started on, also when update_config runs     *)
(* between two page requests; an operation started after the update runs   *)
(* on the client built from the updated CONFIG.                            *)
(***************************************************************************)
C17_ClientPerOperation ==
    /\ [](/\ engine.token = CONFIG.token
          /\ engine.url = CONFIG.url
          /\ exp.pc # "idle" => \A i \in 1..Len(posts) : SentBy(posts[i], exp.self))
    /\ [][/\ (exp.pc # "loop" /\ posts' # posts /\ posts' # <<>>)
               => /\ \A i \in 1..Len(posts') : SentBy(posts'[i], engine)
                  /\ exp'.pc # "idle" => exp'.self = engine
          /\ exp.pc = "loop"
               => /\ exp'.self = exp.self
                  /\ posts' # posts => SentBy(posts'[Len(posts')], exp.self)]_vars

\* an export that began under the first configuration is in its loop, has
\* sent the requests of two pages and has a page left to ask for, while the
\* global engine is the one built by update_config since
C17_Witness ==
    /\ exp.pc = "loop"
    /\ exp.offset = 2
    /\ LoopCondition(exp.offset, exp.total)
    /\ exp.self.token = "your_api_token_here"
    /\ engine = [token |-> "t1", url |-> "http://u1"]
    /\ Len(posts) = 3
    /\ \A i \in 1..Len(posts) : SentBy(posts[i], exp.self)

====
